---- MODULE Spec2Model ----
(***************************************************************************)
(* Payment-initiation relay (M-Pesa STK push): /api/pay, /api/callback and *)
(* /api/status of the dual-gateway held-connection server                  *)
(* (src/unnamed/part_005, lines 277-843) and of the polling SwiftWallet    *)
(* server (src/unnamed/part_000).                                          *)
(*                                                                         *)
(* JavaScript values are tagged records: Undef, Str(<<chars>>), Num(n),    *)
(* Bool(b).  Strings are sequences of one-character strings so that the    *)
(* case conversions and the regular-expression strip are computed.         *)
(***************************************************************************)
EXTENDS Integers, Sequences, FiniteSets, TLC

VARIABLES
  now,                  \* Date.now() minus EPOCH_MS, in milliseconds
  pc,                   \* [Req -> position of the /api/pay handler]
  body,                 \* [Req -> req.body of /api/pay]
  uniqueRef,            \* [Req -> the key the handler derived]
  attempt,              \* [Req -> attempt of the SwiftWallet retry loop]
  resolved,             \* [Req -> paymentRequest.resolved]
  timer,                \* [Req -> due time of the setTimeout, -1 when none]
  res,                  \* [Req -> responses written to the held res]
  transactionStatuses,  \* the Map: key -> request (held) or entry (polling)
  cbPc,                 \* [Cb -> position of the /api/callback handler]
  cbBody,               \* [Cb -> req.body of /api/callback]
  cbRes,                \* [Cb -> HTTP status answered, 0 when none]
  cbLocal,              \* [Cb -> locals of the handler: insertError, and more when polling]
  payment_callbacks,    \* table payment_callbacks, in insertion order
  transactions,         \* table transactions (the ledger), in insertion order
  recharge_wallet,      \* [User -> users.recharge_wallet]
  stPc,                 \* in-flight GET /api/status: its locals, or idle
  stRes,                \* last answer of GET /api/status
  up                    \* the Node process is running

vars == <<now, pc, body, uniqueRef, attempt, resolved, timer, res,
          transactionStatuses, cbPc, cbBody, cbRes, cbLocal,
          payment_callbacks, transactions, recharge_wallet, stPc, stRes, up>>

(***************************************************************************)
(* Bounds of the model.                                                    *)
(***************************************************************************)
MaxReq == 2
MaxCb == 2
MaxTicks == 2

Req == 1..MaxReq
Cb == 1..MaxCb

(***************************************************************************)
(* JavaScript values.                                                      *)
(***************************************************************************)
Undef == [t |-> "undef"]
Null == [t |-> "null"]
Str(s) == [t |-> "str", v |-> s]
Num(n) == [t |-> "num", v |-> n]
Bool(b) == [t |-> "bool", v |-> b]

IsStr(x) == x.t = "str"

\* ToBoolean
Truthy(x) ==
  CASE x.t = "undef" -> FALSE
    [] x.t = "null" -> FALSE
    [] x.t = "str" -> x.v # <<>>
    [] x.t = "num" -> x.v # 0
    [] x.t = "bool" -> x.v
    [] OTHER -> TRUE

\* a || b
Or(a, b) == IF Truthy(a) THEN a ELSE b

\* obj?.name on a body that is an object (a record of fields), null or undefined
Field(obj, name) ==
  IF obj.t = "obj" /\ name \in DOMAIN obj.v THEN obj.v[name] ELSE Undef

Obj(fields) == [t |-> "obj", v |-> fields]

(***************************************************************************)
(* Strings.                                                                *)
(***************************************************************************)
UpperChars ==
  <<"A","B","C","D","E","F","G","H","I","J","K","L","M",
    "N","O","P","Q","R","S","T","U","V","W","X","Y","Z">>
LowerChars ==
  <<"a","b","c","d","e","f","g","h","i","j","k","l","m",
    "n","o","p","q","r","s","t","u","v","w","x","y","z">>
DigitChars == <<"0","1","2","3","4","5","6","7","8","9">>

Range(s) == {s[i] : i \in DOMAIN s}

ToLowerChar(c) ==
  IF \E i \in DOMAIN UpperChars : UpperChars[i] = c
    THEN LowerChars[CHOOSE i \in DOMAIN UpperChars : UpperChars[i] = c]
    ELSE c

ToUpperChar(c) ==
  IF \E i \in DOMAIN LowerChars : LowerChars[i] = c
    THEN UpperChars[CHOOSE i \in DOMAIN LowerChars : LowerChars[i] = c]
    ELSE c

toLowerCase(s) == [i \in DOMAIN s |-> ToLowerChar(s[i])]
toUpperCase(s) == [i \in DOMAIN s |-> ToUpperChar(s[i])]

startsWith(s, p) == Len(s) >= Len(p) /\ SubSeq(s, 1, Len(p)) = p

\* the class [a-zA-Z0-9]
IsAlnum(c) == c \in Range(UpperChars) \cup Range(LowerChars) \cup Range(DigitChars)

\* s.replace(/[^a-zA-Z0-9]/g, '')
StripNonAlnum(s) == SelectSeq(s, IsAlnum)

\* s.substring(0, n)
substring0(s, n) == SubSeq(s, 1, IF Len(s) < n THEN Len(s) ELSE n)

(***************************************************************************)
(* Program constants.                                                      *)
(***************************************************************************)
TIMEOUT_MS == 120000
MAX_ATTEMPTS == 3
PREFIX_LEN == 4
SUFFIX_MOD == 10000
DEFAULT_AMOUNT == 5

(***************************************************************************)
(* String literals of the source.                                          *)
(***************************************************************************)
S_payp == <<"p","a","y","p">>
S_completed == <<"c","o","m","p","l","e","t","e","d">>
S_COMPLETED == <<"C","O","M","P","L","E","T","E","D">>
S_Success == <<"S","u","c","c","e","s","s">>
S_Failed == <<"F","a","i","l","e","d">>
S_SUCCESS == <<"S","U","C","C","E","S","S">>
S_FAILED == <<"F","A","I","L","E","D">>
S_PENDING == <<"P","E","N","D","I","N","G">>
S_QUEUED == <<"Q","U","E","U","E","D">>
S_success == <<"s","u","c","c","e","s","s">>
S_failed == <<"f","a","i","l","e","d">>

(***************************************************************************)
(* The Map transactionStatuses.                                            *)
(***************************************************************************)
EmptyMap == [k \in {} |-> 0]
MapHas(m, k) == k \in DOMAIN m
MapSet(m, k, v) == [x \in (DOMAIN m) \cup {k} |-> IF x = k THEN v ELSE m[x]]
MapDelete(m, k) == [x \in (DOMAIN m) \ {k} |-> m[x]]

\* transactionStatuses.get(key) for a key that is any JavaScript value: the keys
\* stored are strings, so only a string key can be found.
HasEntry(key) == IsStr(key) /\ MapHas(transactionStatuses, key.v)

(***************************************************************************)
(* Reference generator and gateway selection of /api/pay.                  *)
(***************************************************************************)
\* Date.now().toString().slice(-4): Date.now() = EPOCH_MS + t, where EPOCH_MS is
\* a multiple of 10000 with 13 digits, so the slice is t mod 10000, zero-padded.
timestamp(t) ==
  LET n == t % SUFFIX_MOD IN
  << DigitChars[((n \div 1000) % 10) + 1], DigitChars[((n \div 100) % 10) + 1],
     DigitChars[((n \div 10) % 10) + 1], DigitChars[(n % 10) + 1] >>

\* Variant of the generator that cuts the reference before it strips it
generateUniqueRef_CutFirst(reference, t) ==
  StripNonAlnum(substring0(reference, PREFIX_LEN)) \o timestamp(t)

\* reference.replace(/[^a-zA-Z0-9]/g, '').substring(0, 4) + timestamp
generateUniqueRef(reference, t) ==
  substring0(StripNonAlnum(reference), PREFIX_LEN) \o timestamp(t)

\* Variant of the gateway selection that looks at the registry as well
gateway_ByRegistry(reference) ==
  IF Truthy(reference) /\ startsWith(toLowerCase(reference.v), S_payp)
     /\ transactionStatuses = EmptyMap
    THEN "payhero" ELSE "swiftwallet"

\* reference && reference.toLowerCase().startsWith('payp') ? 'payhero' : 'swiftwallet'
gateway(reference) ==
  IF Truthy(reference) /\ startsWith(toLowerCase(reference.v), S_payp)
    THEN "payhero" ELSE "swiftwallet"

(***************************************************************************)
(* Callback normalizer.                                                    *)
(***************************************************************************)
Throw == [t |-> "throw"]

\* x?.toLowerCase() is a TypeError when x is neither nullish nor a string
ToLowerThrows(x) == x.t \notin {"undef", "null", "str"}
OptToLower(x) == IF IsStr(x) THEN Str(toLowerCase(x.v)) ELSE Undef

\* Variant of the success test that leaves out success === true
IsSuccessCallback_NoFlag(swiftCallback) ==
  OptToLower(Field(swiftCallback, "status")) = Str(S_completed)

\* Variant of the success test that looks for the token 'success'
IsSuccessCallback_SuccessToken(swiftCallback) ==
  /\ Field(swiftCallback, "success") = Bool(TRUE)
  /\ OptToLower(Field(swiftCallback, "status")) = Str(S_success)

\* The success test of the held-connection normalizer
IsSuccessCallback(swiftCallback) ==
  /\ Field(swiftCallback, "success") = Bool(TRUE)
  /\ OptToLower(Field(swiftCallback, "status")) = Str(S_completed)

\* The fields of the normalized callback other than response.Status
NormalizedRest(swiftCallback, Status) ==
  Obj([response |-> Obj([
         Status |-> Status,
         Amount |-> Or(Or(Field(Field(swiftCallback, "result"), "Amount"),
                          Field(swiftCallback, "amount")), Num(DEFAULT_AMOUNT)),
         ExternalReference |-> Field(swiftCallback, "external_reference"),
         ResultCode |-> Or(Field(Field(swiftCallback, "result"), "ResultCode"),
                           IF Field(swiftCallback, "success") = Bool(TRUE)
                             THEN Num(0) ELSE Num(1))]),
       external_reference |-> Field(swiftCallback, "external_reference"),
       reference |-> Field(swiftCallback, "external_reference")])

transformSwiftWalletCallbackToPayHero(swiftCallback) ==
  IF Field(swiftCallback, "success") = Bool(TRUE)
     /\ ToLowerThrows(Field(swiftCallback, "status"))
    THEN Throw
    ELSE NormalizedRest(swiftCallback,
           IF IsSuccessCallback(swiftCallback) THEN Str(S_Success) ELSE Str(S_Failed))

\* The success test of the polling server's normalizer: the status is compared
\* as it is, with 'completed' and with 'COMPLETED'
IsSuccessCallbackPolling(swiftCallback) ==
  /\ Field(swiftCallback, "success") = Bool(TRUE)
  /\ \/ Field(swiftCallback, "status") = Str(S_completed)
     \/ Field(swiftCallback, "status") = Str(S_COMPLETED)

\* The polling server's normalizer; it has no call that can throw
transformSwiftWalletCallbackToPayHeroPolling(swiftCallback) ==
  NormalizedRest(swiftCallback,
    IF IsSuccessCallbackPolling(swiftCallback) THEN Str(S_Success) ELSE Str(S_Failed))

\* const statusRaw = data?.response?.Status || data?.status
statusRawOf(data) == Or(Field(Field(data, "response"), "Status"), Field(data, "status"))

\* const status = statusRaw ? statusRaw.toUpperCase() : null
statusOf(data) ==
  IF Truthy(statusRawOf(data)) THEN Str(toUpperCase(statusRawOf(data).v)) ELSE Null

\* const externalRef = data?.response?.ExternalReference || data?.external_reference
\*                     || data?.reference
externalRefOf(data) ==
  Or(Or(Field(Field(data, "response"), "ExternalReference"),
        Field(data, "external_reference")),
     Field(data, "reference"))

(***************************************************************************)
(* Inputs of the held-connection server.                                   *)
(***************************************************************************)
\* Caller references: "AC-T123" (a character the generator strips) and "PayP-7"
\* (the PayHero prefix, in mixed case)
References == { <<"A","C","-","T","1","2","3">>, <<"P","a","y","P","-","7">> }

PayBody(ref) ==
  Obj([phone |-> Str(<<"0","7","1">>), amount |-> Num(500),
       reference |-> Str(ref), user_id |-> Num(1)])

PayBodies == { PayBody(ref) : ref \in References }

\* A key no request ever derives
NeverKey == <<"N","O","N","E","0","0","0","0">>

\* Time steps: the period of the key's time suffix (10 s), and the length of
\* the timeout window
Delays == {SUFFIX_MOD, TIMEOUT_MS}
TicksUsed == (now \div TIMEOUT_MS) + ((now % TIMEOUT_MS) \div SUFFIX_MOD)

Arrived == {r \in Req : pc[r] # "idle"}
ArrivedKeys == {uniqueRef[r] : r \in Arrived}
KnownKeys == ArrivedKeys \cup {NeverKey}

\* Webhook shapes, the fields other than external_reference
Completed == [success |-> Bool(TRUE), status |-> Str(S_completed), amount |-> Num(500)]
Failed == [success |-> Bool(FALSE), status |-> Str(S_failed), amount |-> Num(500)]
NumericStatus == [success |-> Bool(TRUE), status |-> Num(200)]
EmptyBody == [f \in {} |-> Undef]

WithRef(shape, ref) ==
  [f \in (DOMAIN shape) \cup {"external_reference"} |->
     IF f = "external_reference" THEN ref ELSE shape[f]]

\* Deliveries: a completed or failed payment for a key some request derived, a
\* completed payment for a key that never existed, and two malformed bodies
\* (success=true with a numeric status, for a key that never existed; no field
\* at all)
Webhooks ==
  { Obj(WithRef(shape, Str(k))) : shape \in {Completed, Failed}, k \in ArrivedKeys }
  \cup { Obj(WithRef(Completed, Str(NeverKey))),
         Obj(WithRef(NumericStatus, Str(NeverKey))), Obj(EmptyBody) }

(***************************************************************************)
(* POST /api/pay, held-connection server.                                  *)
(***************************************************************************)
\* A write to a response object; a second write throws ERR_HTTP_HEADERS_SENT and
\* is recorded after the first.
Written(r) == res[r] # <<>>
Write(r, answer) == [res EXCEPT ![r] = Append(@, answer)]

\* From the start of the handler to the first await of the provider call
Pay(r, b) ==
  /\ up
  /\ pc[r] = "idle"
  /\ IF r = 1 THEN TRUE ELSE pc[r - 1] # "idle"
  /\ LET key == generateUniqueRef(Field(b, "reference").v, now) IN
       /\ uniqueRef' = [uniqueRef EXCEPT ![r] = key]
       /\ transactionStatuses' = MapSet(transactionStatuses, key, r)
  /\ body' = [body EXCEPT ![r] = b]
  /\ pc' = [pc EXCEPT ![r] = "await"]
  /\ attempt' = [attempt EXCEPT ![r] = 1]
  /\ UNCHANGED <<now, resolved, timer, res, cbPc, cbBody, cbRes, cbLocal,
                 payment_callbacks, transactions, recharge_wallet, stPc, stRes, up>>

\* The provider call returned: re-put of the request and setTimeout
ProviderOk(r) ==
  /\ up
  /\ pc[r] = "await"
  /\ transactionStatuses' = MapSet(transactionStatuses, uniqueRef[r], r)
  /\ timer' = [timer EXCEPT ![r] = now + TIMEOUT_MS]
  /\ pc' = [pc EXCEPT ![r] = "held"]
  /\ UNCHANGED <<now, body, uniqueRef, attempt, resolved, res, cbPc, cbBody, cbRes,
                 cbLocal, payment_callbacks, transactions, recharge_wallet,
                 stPc, stRes, up>>

\* The SwiftWallet loop retries while attempt < 3; PayHero has no loop
Retries(r) ==
  gateway(Field(body[r], "reference")) = "swiftwallet" /\ attempt[r] < MAX_ATTEMPTS

\* The provider call failed: retry, or the catch block answers 500.  A 500 written
\* to a response a callback already completed throws out of the async handler: an
\* unhandled rejection, which ends the process or not, by the build.
ProviderErr(r) ==
  /\ up
  /\ pc[r] = "await"
  /\ IF Retries(r)
       THEN /\ attempt' = [attempt EXCEPT ![r] = @ + 1]
            /\ UNCHANGED <<pc, res, up>>
       ELSE /\ res' = Write(r, [code |-> 500, status |-> "FAILED", by |-> "catch"])
            /\ pc' = [pc EXCEPT ![r] = "failed"]
            /\ IF Written(r) THEN up' \in BOOLEAN ELSE up' = up
            /\ UNCHANGED attempt
  /\ UNCHANGED <<now, body, uniqueRef, resolved, timer, transactionStatuses, cbPc,
                 cbBody, cbRes, cbLocal, payment_callbacks, transactions,
                 recharge_wallet, stPc, stRes>>

\* The setTimeout callback of request r.  It looks the key up again, so it acts on
\* whichever request is registered under the key now.  A throw out of a timer
\* callback is an uncaught exception: the process exits.
TimerFire(r) ==
  /\ up
  /\ pc[r] = "held"
  /\ now >= timer[r]
  /\ pc' = [pc EXCEPT ![r] = "fired"]
  /\ timer' = [timer EXCEPT ![r] = -1]
  /\ LET key == uniqueRef[r] IN
       IF MapHas(transactionStatuses, key) /\ ~resolved[transactionStatuses[key]]
         THEN LET request == transactionStatuses[key] IN
                /\ resolved' = [resolved EXCEPT ![request] = TRUE]
                /\ transactionStatuses' = MapDelete(transactionStatuses, key)
                /\ res' = Write(request,
                            [code |-> 200, status |-> "TIMEOUT", by |-> "timer"])
                /\ up' = ~Written(request)
         ELSE UNCHANGED <<resolved, transactionStatuses, res, up>>
  /\ UNCHANGED <<now, body, uniqueRef, attempt, cbPc, cbBody, cbRes, cbLocal,
                 payment_callbacks, transactions, recharge_wallet, stPc, stRes>>

\* Time passes.  No provider call spans a whole timeout window: axios gives up
\* after 30 s, so three attempts and two waits of 2 s end within 94 s.
Tick(d) ==
  /\ TicksUsed < MaxTicks
  /\ d = TIMEOUT_MS => \A r \in Req : pc[r] # "await"
  /\ now' = now + d
  /\ UNCHANGED <<pc, body, uniqueRef, attempt, resolved, timer, res,
                 transactionStatuses, cbPc, cbBody, cbRes, cbLocal,
                 payment_callbacks, transactions, recharge_wallet, stPc, stRes, up>>

(***************************************************************************)
(* POST /api/callback, held-connection server.                             *)
(***************************************************************************)
\* The answer the callback writes to the waiting request
CallbackAnswer(status) ==
  IF status = Str(S_SUCCESS) \/ status = Str(S_COMPLETED)
    THEN [code |-> 200, status |-> "SUCCESS", by |-> "callback"]
    ELSE [code |-> 200, status |-> "FAILED", by |-> "callback"]

\* Variant of the test without !memoryData.resolved
IsWaiting_IgnoresResolved(externalRef) == HasEntry(externalRef)

\* Variant of the test that takes only requests already resolved
IsWaiting_ResolvedOnly(externalRef) ==
  HasEntry(externalRef) /\ resolved[transactionStatuses[externalRef.v]]

\* if (memoryData && memoryData.res && !memoryData.resolved)
IsWaiting(externalRef) ==
  HasEntry(externalRef) /\ ~resolved[transactionStatuses[externalRef.v]]

\* The row the handler inserts into payment_callbacks; cb identifies the delivery
CallbackRow(c, b) ==
  LET data == transformSwiftWalletCallbackToPayHero(b) IN
  [external_reference |-> externalRefOf(data), callback_data |-> data,
   status |-> statusOf(data), cb |-> c]

\* supabase.from('payment_callbacks').insert([row]): stored, or an error that the
\* handler only logs.  Rows are kept in insertion order.
InsertCallback(row, stored) ==
  IF stored THEN Append(payment_callbacks, row) ELSE payment_callbacks

\* The handler of one delivery.  A throw of the normalizer is outside the try
\* block: the async handler rejects, and the build decides whether the request
\* hangs, is answered 500, or the process ends.  Inside the try block the waiting
\* request is completed and removed, the row is inserted and 200 is answered; a
\* throw of res.json on a response already written skips the delete and the
\* insert, and the catch block answers 200.
Callback(c, b, stored) ==
  /\ up
  /\ cbPc[c] = "idle"
  /\ IF c = 1 THEN TRUE ELSE cbPc[c - 1] # "idle"
  /\ cbBody' = [cbBody EXCEPT ![c] = b]
  /\ LET data == transformSwiftWalletCallbackToPayHero(b)
         externalRef == externalRefOf(data)
         status == statusOf(data)
         inserted == [cbLocal EXCEPT ![c] = [insertError |-> ~stored]]
     IN
       IF data = Throw
         THEN /\ cbPc' = [cbPc EXCEPT ![c] = "crashed"]
              /\ \E outcome \in {<<0, TRUE>>, <<500, TRUE>>, <<0, FALSE>>} :
                   /\ cbRes' = [cbRes EXCEPT ![c] = outcome[1]]
                   /\ up' = outcome[2]
              /\ UNCHANGED <<resolved, res, transactionStatuses, payment_callbacks,
                             cbLocal>>
         ELSE /\ cbPc' = [cbPc EXCEPT ![c] = "done"]
              /\ cbRes' = [cbRes EXCEPT ![c] = 200]
              /\ UNCHANGED up
              /\ IF IsWaiting(externalRef)
                   THEN LET memoryData == transactionStatuses[externalRef.v] IN
                          /\ resolved' = [resolved EXCEPT ![memoryData] = TRUE]
                          /\ res' = Write(memoryData, CallbackAnswer(status))
                          /\ IF Written(memoryData)
                               THEN UNCHANGED <<transactionStatuses, payment_callbacks,
                                                cbLocal>>
                               ELSE /\ transactionStatuses' =
                                         MapDelete(transactionStatuses, externalRef.v)
                                    /\ payment_callbacks' =
                                         InsertCallback(CallbackRow(c, b), stored)
                                    /\ cbLocal' = inserted
                   ELSE /\ payment_callbacks' = InsertCallback(CallbackRow(c, b), stored)
                        /\ cbLocal' = inserted
                        /\ UNCHANGED <<resolved, res, transactionStatuses>>
  /\ UNCHANGED <<now, pc, body, uniqueRef, attempt, timer,
                 transactions, recharge_wallet, stPc, stRes>>

(***************************************************************************)
(* GET /api/status/:externalRef, held-connection server.                   *)
(***************************************************************************)
Idle == [t |-> "idle"]

\* .eq('external_reference', externalRef).order('created_at', desc).limit(1):
\* rows are kept in insertion order, which is the order of created_at
RowsFor(key) ==
  SelectSeq(payment_callbacks, LAMBDA row : row.external_reference = Str(key))
\* Variant of the query that returns the oldest row of the key
LatestRows_Oldest(key) ==
  IF RowsFor(key) = <<>> THEN <<>> ELSE <<RowsFor(key)[1]>>

\* .order('created_at', { ascending: false }).limit(1)
LatestRows(key) ==
  IF RowsFor(key) = <<>> THEN <<>> ELSE <<RowsFor(key)[Len(RowsFor(key))]>>

\* Variant of the answer that reports QUEUED whatever the row holds
RowAnswer_Queued(key, latest) ==
  [key |-> key, code |-> 200, status |-> S_QUEUED, verified |-> FALSE,
   source |-> "callback"]

\* The answer built from the latest row
RowAnswer(key, latest) ==
  LET normalizedStatus == toUpperCase(Or(latest.status, Str(S_PENDING)).v) IN
  [key |-> key, code |-> 200, status |-> normalizedStatus,
   verified |-> (normalizedStatus = S_SUCCESS \/ normalizedStatus = S_COMPLETED),
   source |-> "callback"]

\* Variant of the query step that drops the key from the registry
StatusQuery_DropsEntry(key, outcome) ==
  /\ up
  /\ stPc = Idle
  /\ stPc' = [t |-> "query", key |-> key, outcome |-> outcome,
              callbackRows |-> IF outcome = "rows" THEN LatestRows(key) ELSE <<>>]
  /\ transactionStatuses' = MapDelete(transactionStatuses, key)
  /\ UNCHANGED <<now, pc, body, uniqueRef, attempt, resolved, timer, res,
                 cbPc, cbBody, cbRes, cbLocal,
                 payment_callbacks, transactions, recharge_wallet, stRes, up>>

\* The query is sent; outcome is rows, an error result, or a thrown error
StatusQuery(key, outcome) ==
  /\ up
  /\ stPc = Idle
  /\ stPc' = [t |-> "query", key |-> key, outcome |-> outcome,
              callbackRows |-> IF outcome = "rows" THEN LatestRows(key) ELSE <<>>]
  /\ UNCHANGED <<now, pc, body, uniqueRef, attempt, resolved, timer, res,
                 transactionStatuses, cbPc, cbBody, cbRes, cbLocal,
                 payment_callbacks, transactions, recharge_wallet, stRes, up>>

\* The query returned: answer from the row, else from the registry, else PENDING
StatusAnswer ==
  /\ up
  /\ stPc # Idle
  /\ stRes' =
       IF stPc.outcome = "throw"
         THEN [key |-> stPc.key, code |-> 500, status |-> <<>>, verified |-> FALSE,
               source |-> "catch"]
         ELSE IF stPc.callbackRows # <<>>
           THEN RowAnswer(stPc.key, stPc.callbackRows[1])
           ELSE IF MapHas(transactionStatuses, stPc.key)
             THEN [key |-> stPc.key, code |-> 200, status |-> S_QUEUED,
                   verified |-> FALSE, source |-> "memory"]
             ELSE [key |-> stPc.key, code |-> 200, status |-> S_PENDING,
                   verified |-> FALSE, source |-> "none"]
  /\ stPc' = Idle
  /\ UNCHANGED <<now, pc, body, uniqueRef, attempt, resolved, timer, res,
                 transactionStatuses, cbPc, cbBody, cbRes, cbLocal,
                 payment_callbacks, transactions, recharge_wallet, up>>

(***************************************************************************)
(* The held-connection server.                                             *)
(***************************************************************************)
Users == {1}

Init ==
  /\ now = 0
  /\ pc = [r \in Req |-> "idle"]
  /\ body = [r \in Req |-> Undef]
  /\ uniqueRef = [r \in Req |-> <<>>]
  /\ attempt = [r \in Req |-> 0]
  /\ resolved = [r \in Req |-> FALSE]
  /\ timer = [r \in Req |-> -1]
  /\ res = [r \in Req |-> <<>>]
  /\ transactionStatuses = EmptyMap
  /\ cbPc = [c \in Cb |-> "idle"]
  /\ cbBody = [c \in Cb |-> Undef]
  /\ cbRes = [c \in Cb |-> 0]
  /\ cbLocal = [c \in Cb |-> Undef]
  /\ payment_callbacks = <<>>
  /\ transactions = <<>>
  /\ recharge_wallet = [u \in Users |-> 0]
  /\ stPc = Idle
  /\ stRes = Idle
  /\ up = TRUE

Next ==
  \/ \E r \in Req, b \in PayBodies : Pay(r, b)
  \/ \E r \in Req : ProviderOk(r)
  \/ \E r \in Req : ProviderErr(r)
  \/ \E r \in Req : TimerFire(r)
  \/ \E d \in Delays : Tick(d)
  \/ \E c \in Cb, b \in Webhooks, stored \in BOOLEAN : Callback(c, b, stored)

Spec == Init /\ [][Next]_vars

(***************************************************************************)
(* The held-connection server with its status endpoint: SpecStatus follows *)
(* a payment from initiation over its webhooks to the answers of           *)
(* GET /api/status.                                                        *)
(***************************************************************************)
MaxStatusReq == 1
StatusReq == 1..MaxStatusReq

\* The webhook {status: "Success", external_reference, amount: 500}
StatusOnly == [status |-> Str(S_Success), amount |-> Num(500)]

StatusWebhooks ==
  { Obj(WithRef(shape, Str(k))) : shape \in {StatusOnly, Completed, Failed},
                                 k \in ArrivedKeys }

QueryOutcomes == {"rows", "error", "throw"}

NextStatus ==
  \/ \E r \in StatusReq, b \in PayBodies : Pay(r, b)
  \/ \E r \in StatusReq : ProviderOk(r)
  \/ \E r \in StatusReq : ProviderErr(r)
  \/ \E r \in StatusReq : TimerFire(r)
  \/ Tick(TIMEOUT_MS)
  \/ \E c \in Cb, b \in StatusWebhooks, stored \in BOOLEAN : Callback(c, b, stored)
  \/ \E key \in KnownKeys, outcome \in QueryOutcomes : StatusQuery(key, outcome)
  \/ StatusAnswer

SpecStatus == Init /\ [][NextStatus]_vars

(***************************************************************************)
(* Properties of the status endpoint, checked under SpecStatus.            *)
(***************************************************************************)
\* The last status answer was built from a callback row, and every row stored
\* for its key came from a delivery of the given shape
AnsweredFromRowsOf(shape) ==
  /\ stRes # Idle
  /\ stRes.source = "callback"
  /\ \A i \in DOMAIN payment_callbacks :
       payment_callbacks[i].external_reference = Str(stRes.key) =>
         cbBody[payment_callbacks[i].cb] = Obj(WithRef(shape, Str(stRes.key)))

\* C9 (as claimed): after a payment was initiated and the webhook
\* {status: "Success", external_reference: key, amount: 500} was received and
\* stored, GET /api/status/key reports SUCCESS with verified = true
C9_StatusOnlyWebhookVerified ==
  AnsweredFromRowsOf(StatusOnly) => (stRes.status = S_SUCCESS /\ stRes.verified)

\* C9 (amended): after a payment was initiated and the webhook {success: true,
\* status: "completed", external_reference: key, amount: 500} was received and
\* stored, GET /api/status/key reports SUCCESS with verified = true; after the
\* webhook {status: "Success", ...}, which has no success flag, it reports
\* FAILED with verified = false
C9_CompletedWebhookVerified ==
  /\ AnsweredFromRowsOf(Completed) => (stRes.status = S_SUCCESS /\ stRes.verified)
  /\ AnsweredFromRowsOf(StatusOnly) => (stRes.status = S_FAILED /\ ~stRes.verified)

\* C9 witness: the status of an initiated payment was answered from the stored
\* row of its completed webhook
C9_Witness ==
  /\ AnsweredFromRowsOf(Completed)
  /\ \E r \in StatusReq : pc[r] # "idle" /\ uniqueRef[r] = stRes.key
  /\ stRes.status = S_SUCCESS
  /\ stRes.verified

(***************************************************************************)
(* The callback normalizers as functions of the webhook body: SpecNormalize *)
(* hands one body to the normalizer of the held-connection server and to   *)
(* the normalizer of the polling server.                                   *)
(***************************************************************************)
Absent == [t |-> "absent"]
S_Completed == <<"C","o","m","p","l","e","t","e","d">>
S_true == <<"t","r","u","e">>

\* A body with the fields whose value is not Absent
PayloadOf(success, status, ref, result) ==
  LET all == [success |-> success, status |-> status,
              external_reference |-> ref, result |-> result]
  IN Obj([f \in {g \in DOMAIN all : all[g] # Absent} |-> all[f]])

SuccessValues == {Absent, Null, Bool(TRUE), Bool(FALSE), Str(S_true), Num(1)}
StatusValues ==
  {Absent, Null, Str(S_completed), Str(S_COMPLETED), Str(S_Completed),
   Str(S_Success), Str(S_failed), Num(200)}
RefValues == {Absent, Str(NeverKey)}
ResultValues == {Absent, Obj([ResultCode |-> Num(0), Amount |-> Num(500)])}

\* req.body: absent, null, or an object with any combination of the fields
Payloads ==
  {Undef, Null} \cup
  { PayloadOf(success, status, ref, result) :
      success \in SuccessValues, status \in StatusValues,
      ref \in RefValues, result \in ResultValues }

Normalizers == {"held", "polling"}

Normalize(c, variant) ==
  /\ cbPc[c] = "received"
  /\ cbPc' = [cbPc EXCEPT ![c] = "normalized"]
  /\ cbLocal' = [cbLocal EXCEPT ![c] =
       [variant |-> variant,
        data |-> IF variant = "held"
                   THEN transformSwiftWalletCallbackToPayHero(cbBody[c])
                   ELSE transformSwiftWalletCallbackToPayHeroPolling(cbBody[c])]]
  /\ UNCHANGED <<now, pc, body, uniqueRef, attempt, resolved, timer, res,
                 transactionStatuses, cbBody, cbRes, payment_callbacks,
                 transactions, recharge_wallet, stPc, stRes, up>>

InitNormalize ==
  /\ now = 0
  /\ pc = [r \in Req |-> "idle"]
  /\ body = [r \in Req |-> Undef]
  /\ uniqueRef = [r \in Req |-> <<>>]
  /\ attempt = [r \in Req |-> 0]
  /\ resolved = [r \in Req |-> FALSE]
  /\ timer = [r \in Req |-> -1]
  /\ res = [r \in Req |-> <<>>]
  /\ transactionStatuses = EmptyMap
  /\ cbPc = [c \in Cb |-> IF c = 1 THEN "received" ELSE "idle"]
  /\ \E p \in Payloads : cbBody = [c \in Cb |-> IF c = 1 THEN p ELSE Undef]
  /\ cbRes = [c \in Cb |-> 0]
  /\ cbLocal = [c \in Cb |-> Undef]
  /\ payment_callbacks = <<>>
  /\ transactions = <<>>
  /\ recharge_wallet = [u \in Users |-> 0]
  /\ stPc = Idle
  /\ stRes = Idle
  /\ up = TRUE

NextNormalize == \E c \in Cb, variant \in Normalizers : Normalize(c, variant)

SpecNormalize == InitNormalize /\ [][NextNormalize]_vars

(***************************************************************************)
(* Properties of the normalizers, checked under SpecNormalize.             *)
(***************************************************************************)
\* response.Status of a normalized callback
StatusField(data) == Field(Field(data, "response"), "Status")

\* C6: for a body whose success field is not the boolean true (absent and null
\* bodies and bodies lacking the field included), whatever the other fields
\* hold, neither normalizer throws and the Status it yields is 'Failed', never
\* 'Success'.
C6_NoSuccessWithoutFlag ==
  \A c \in Cb :
    (cbPc[c] = "normalized" /\ Field(cbBody[c], "success") # Bool(TRUE)) =>
      /\ cbLocal[c].data # Throw
      /\ StatusField(cbLocal[c].data) # Str(S_Success)
      /\ StatusField(cbLocal[c].data) = Str(S_Failed)

\* C6 witness: the held-connection normalizer has classified a body that has the
\* status 'completed' and a result block but no success field
C6_Witness ==
  \E c \in Cb :
    /\ cbPc[c] = "normalized"
    /\ cbLocal[c].variant = "held"
    /\ cbBody[c] = PayloadOf(Absent, Str(S_completed), Str(NeverKey),
                             Obj([ResultCode |-> Num(0), Amount |-> Num(500)]))
    /\ StatusField(cbLocal[c].data) = Str(S_Failed)

\* A body the provider's format does not describe: not an object, or an object
\* whose success indicator is not a boolean
IsUnrecognized(swiftCallback) ==
  Field(swiftCallback, "success") \notin {Bool(TRUE), Bool(FALSE)}

\* C21 (as claimed): the held-connection normalizer gives an unrecognized body an
\* outcome that is neither 'Failed' nor 'Success'
C21_UnrecognizedIsUnknown ==
  \A c \in Cb :
    (/\ cbPc[c] = "normalized"
     /\ cbLocal[c].variant = "held"
     /\ IsUnrecognized(cbBody[c]))
      => /\ cbLocal[c].data # Throw
         /\ StatusField(cbLocal[c].data) \notin {Str(S_Failed), Str(S_Success)}

\* C22 (as claimed): the held-connection normalizer returns a value for every
\* body, whatever is absent and whatever type the fields have
C22_NormalizerNeverThrows ==
  \A c \in Cb :
    (cbPc[c] = "normalized" /\ cbLocal[c].variant = "held")
      => cbLocal[c].data # Throw

\* C28 (as claimed): the polling normalizer yields 'Success' exactly for the
\* bodies with success === true whose status is 'completed' in any letter case
C28_PollingSuccessAnyCase ==
  \A c \in Cb :
    (cbPc[c] = "normalized" /\ cbLocal[c].variant = "polling")
      => (StatusField(cbLocal[c].data) = Str(S_Success)
            <=> /\ Field(cbBody[c], "success") = Bool(TRUE)
                /\ OptToLower(Field(cbBody[c], "status")) = Str(S_completed))

(***************************************************************************)
(* Properties of the held-connection server, checked under Spec.           *)
(***************************************************************************)
\* No other request that arrived derived the key of r
UniqueKey(r) == \A q \in Arrived \ {r} : uniqueRef[q] # uniqueRef[r]

\* The deliveries handled so far whose normalized key is the key of r
DeliveriesFor(r) ==
  {c \in Cb : /\ cbPc[c] # "idle"
              /\ Field(cbBody[c], "external_reference") = Str(uniqueRef[r])}

\* C1: for a request whose provider call succeeded (so its timer is scheduled) and
\* whose key no other request shares, under every interleaving of deliveries for
\* the key and the firing of the timer, the held response is written at most
\* once, exactly once when the timer has fired, and only by the one of
\* {callback, timer} that marked the request resolved; a request not yet
\* resolved is still the registry's entry for its key.
C1_HeldResponseWrittenOnce ==
  \A r \in Req :
    (pc[r] \in {"held", "fired"} /\ UniqueKey(r)) =>
      /\ Len(res[r]) <= 1
      /\ (pc[r] = "fired" => Len(res[r]) = 1)
      /\ (resolved[r] <=> Len(res[r]) = 1)
      /\ (Len(res[r]) = 1 => res[r][1].by \in {"callback", "timer"})
      /\ (~resolved[r] => /\ MapHas(transactionStatuses, uniqueRef[r])
                          /\ transactionStatuses[uniqueRef[r]] = r)

\* C1 witness: two deliveries for the key of a request and its timer have all
\* run, and the one answer the request got is the first delivery's
C1_Witness ==
  \E r \in Req :
    /\ pc[r] = "fired"
    /\ UniqueKey(r)
    /\ DeliveriesFor(r) = Cb
    /\ Len(res[r]) = 1
    /\ res[r][1].by = "callback"

\* C2 (as claimed): every request whose handling is over (its catch block
\* answered, or its timer has run) has received an answer
C2_EveryRequestAnswered ==
  \A r \in Req : pc[r] \in {"fired", "failed"} => res[r] # <<>>

\* C3 (as claimed): every delivery handled reached the insert into
\* payment_callbacks
C3_EveryDeliveryInserted ==
  \A c \in Cb : cbPc[c] # "idle" => cbLocal[c] # Undef

\* C7 (as claimed): every delivery handled was answered with HTTP 200
C7_CallbackAlways200 ==
  \A c \in Cb : cbPc[c] # "idle" => cbRes[c] = 200

\* C8 (as claimed): when the timer of a request runs and no delivery for its key
\* was handled, the request is answered TIMEOUT by the timer and the key is no
\* longer in the registry
C8_TimerAnswersTimeout ==
  [][\A r \in Req :
       (pc[r] = "held" /\ pc'[r] = "fired" /\ DeliveriesFor(r) = {}) =>
         /\ res'[r] = <<[code |-> 200, status |-> "TIMEOUT", by |-> "timer"]>>
         /\ ~MapHas(transactionStatuses', uniqueRef[r])]_vars

\* C10 (as claimed): no request whose connection a callback or the timer
\* completed is in the registry
C10_RegistryOnlyPending ==
  \A k \in DOMAIN transactionStatuses :
    LET r == transactionStatuses[k] IN
      ~(res[r] # <<>> /\ res[r][1].by \in {"callback", "timer"})

(***************************************************************************)
(* The polling SwiftWallet server (src/unnamed/part_000): /api/pay answers *)
(* at once and keeps an entry with the user_id in transactionStatuses;     *)
(* /api/callback stores the callback, writes the ledger row and credits    *)
(* the wallet.  Each await of the callback handler is a step.              *)
(***************************************************************************)
\* From the start of the handler to the first await of the provider call
PollPay(r, b) ==
  /\ up
  /\ pc[r] = "idle"
  /\ IF r = 1 THEN TRUE ELSE pc[r - 1] # "idle"
  /\ uniqueRef' = [uniqueRef EXCEPT
                     ![r] = generateUniqueRef(Field(b, "reference").v, now)]
  /\ body' = [body EXCEPT ![r] = b]
  /\ pc' = [pc EXCEPT ![r] = "await"]
  /\ attempt' = [attempt EXCEPT ![r] = 1]
  /\ UNCHANGED <<now, resolved, timer, res, transactionStatuses, cbPc, cbBody, cbRes,
                 cbLocal, payment_callbacks, transactions, recharge_wallet,
                 stPc, stRes, up>>

\* const statusKey = payHeroData?.external_reference || reference, where
\* external_reference is the reference of the provider's response, if it has one
statusKeyOf(r, echoed) ==
  Or(IF echoed THEN Str(uniqueRef[r]) ELSE Undef, Field(body[r], "reference"))

\* The entry /api/pay stores
PollEntry(r) ==
  [status |-> S_QUEUED, user_id |-> Field(body[r], "user_id"), verified |-> FALSE]

\* The provider call returned: the entry is stored and the caller is answered
PollProviderOk(r, echoed) ==
  /\ up
  /\ pc[r] = "await"
  /\ LET statusKey == statusKeyOf(r, echoed) IN
       /\ transactionStatuses' =
            IF Truthy(statusKey)
              THEN MapSet(transactionStatuses, statusKey.v, PollEntry(r))
              ELSE transactionStatuses
       /\ res' = Write(r, [code |-> 200, status |-> "QUEUED", by |-> "pay",
                           external_reference |-> statusKey])
  /\ pc' = [pc EXCEPT ![r] = "done"]
  /\ UNCHANGED <<now, body, uniqueRef, attempt, resolved, timer, cbPc, cbBody, cbRes,
                 cbLocal, payment_callbacks, transactions, recharge_wallet,
                 stPc, stRes, up>>

\* The provider call failed: retry while attempt < 3; then the catch block
\* answers 200 PENDING for the provider's "Failed to create transaction record"
\* and 500 otherwise
PollProviderErr(r, fallback) ==
  /\ up
  /\ pc[r] = "await"
  /\ IF attempt[r] < MAX_ATTEMPTS
       THEN /\ attempt' = [attempt EXCEPT ![r] = @ + 1]
            /\ UNCHANGED <<pc, res>>
       ELSE /\ res' = Write(r,
                 IF fallback
                   THEN [code |-> 200, status |-> "PENDING", by |-> "catch",
                         external_reference |-> Str(uniqueRef[r])]
                   ELSE [code |-> 500, status |-> "Failure", by |-> "catch",
                         external_reference |-> Undef])
            /\ pc' = [pc EXCEPT ![r] = "failed"]
            /\ UNCHANGED attempt
  /\ UNCHANGED <<now, body, uniqueRef, resolved, timer, transactionStatuses, cbPc,
                 cbBody, cbRes, cbLocal, payment_callbacks, transactions,
                 recharge_wallet, stPc, stRes, up>>

\* const externalRef = data?.response?.ExternalReference || data?.external_reference
\*                     || data?.response?.external_reference || data?.reference
externalRefOfPolling(data) ==
  Or(Or(Or(Field(Field(data, "response"), "ExternalReference"),
           Field(data, "external_reference")),
        Field(Field(data, "response"), "external_reference")),
     Field(data, "reference"))

\* const amount = data?.response?.Amount || 5
amountOf(data) == Or(Field(Field(data, "response"), "Amount"), Num(DEFAULT_AMOUNT)).v

\* const userId = memoryData?.user_id
userIdOf(memoryData) == IF memoryData = Undef THEN Undef ELSE memoryData.user_id

\* The locals of the handler of delivery c
PollData(c) == transformSwiftWalletCallbackToPayHeroPolling(cbBody[c])
PollRef(c) == externalRefOfPolling(PollData(c))

\* Webhook shapes of a completed payment without an amount, and with an amount
\* above the 500 of the requests
NoAmount == [success |-> Bool(TRUE), status |-> Str(S_completed)]
Overpaid == [success |-> Bool(TRUE), status |-> Str(S_completed), amount |-> Num(900)]

\* Deliveries to the polling server: a completed payment (with the amount of the
\* request, with none, with a larger one) or a failed payment for a key some
\* request derived, and a body without fields
PollWebhooks ==
  { Obj(WithRef(shape, Str(k))) : shape \in {Completed, Failed, NoAmount, Overpaid},
                                 k \in ArrivedKeys }
  \cup { Obj(EmptyBody) }

\* The end of the handler: the entry read at the start is written back with the
\* callback's status, and 200 is answered (by the outer catch block, which the
\* reference to processBlockError outside its catch clause always enters)
PollFinish(c) ==
  /\ cbPc' = [cbPc EXCEPT ![c] = "done"]
  /\ cbRes' = [cbRes EXCEPT ![c] = 200]
  /\ LET memoryData == cbLocal[c].memoryData
         status == statusOf(PollData(c))
     IN transactionStatuses' =
          IF memoryData # Undef
            THEN MapSet(transactionStatuses, PollRef(c).v,
                   [memoryData EXCEPT
                      !.status = IF Truthy(status) THEN status.v ELSE @,
                      !.verified = Truthy(status) /\ toLowerCase(status.v) = S_success])
            ELSE transactionStatuses

\* From the start of the handler to the first await: the entry is read; without
\* an externalRef the handler answers 200 at once
PollCallback(c, b) ==
  /\ up
  /\ cbPc[c] = "idle"
  /\ IF c = 1 THEN TRUE ELSE cbPc[c - 1] # "idle"
  /\ cbBody' = [cbBody EXCEPT ![c] = b]
  /\ LET externalRef ==
           externalRefOfPolling(transformSwiftWalletCallbackToPayHeroPolling(b))
     IN
       IF Truthy(externalRef)
         THEN /\ cbPc' = [cbPc EXCEPT ![c] = "insert"]
              /\ cbLocal' = [cbLocal EXCEPT ![c] =
                   [memoryData |-> IF HasEntry(externalRef)
                                     THEN transactionStatuses[externalRef.v]
                                     ELSE Undef,
                    profile |-> 0]]
              /\ UNCHANGED cbRes
         ELSE /\ cbPc' = [cbPc EXCEPT ![c] = "done"]
              /\ cbRes' = [cbRes EXCEPT ![c] = 200]
              /\ UNCHANGED cbLocal
  /\ UNCHANGED <<now, pc, body, uniqueRef, attempt, resolved, timer, res,
                 transactionStatuses, payment_callbacks, transactions,
                 recharge_wallet, stPc, stRes, up>>

\* The insert into payment_callbacks returned (stored by it or by the second
\* attempt, or not at all).  Without a user_id in the entry the handler returns
\* without answering.
PollInsert(c, stored) ==
  /\ up
  /\ cbPc[c] = "insert"
  /\ payment_callbacks' =
       IF stored
         THEN Append(payment_callbacks,
                [external_reference |-> PollRef(c), callback_data |-> PollData(c),
                 status |-> statusOf(PollData(c)), cb |-> c])
         ELSE payment_callbacks
  /\ cbPc' = [cbPc EXCEPT ![c] =
       IF Truthy(userIdOf(cbLocal[c].memoryData)) THEN "transaction" ELSE "returned"]
  /\ UNCHANGED <<now, pc, body, uniqueRef, attempt, resolved, timer, res,
                 transactionStatuses, cbBody, cbRes, cbLocal, transactions,
                 recharge_wallet, stPc, stRes, up>>

\* The insert into transactions returned.  The row is written whatever the
\* callback's status is; on an error the wallet is left alone.
PollTransaction(c, ok) ==
  /\ up
  /\ cbPc[c] = "transaction"
  /\ IF ok
       THEN /\ transactions' = Append(transactions,
                 [user_id |-> userIdOf(cbLocal[c].memoryData).v,
                  amount |-> amountOf(PollData(c)),
                  external_reference |-> PollRef(c), cb |-> c])
            /\ cbPc' = [cbPc EXCEPT ![c] = "wallet_read"]
            /\ UNCHANGED <<cbRes, transactionStatuses>>
       ELSE /\ PollFinish(c)
            /\ UNCHANGED transactions
  /\ UNCHANGED <<now, pc, body, uniqueRef, attempt, resolved, timer, res,
                 cbBody, cbLocal, payment_callbacks, recharge_wallet,
                 stPc, stRes, up>>

\* The select of users.recharge_wallet returned
PollWalletRead(c, ok) ==
  /\ up
  /\ cbPc[c] = "wallet_read"
  /\ IF ok
       THEN /\ cbLocal' = [cbLocal EXCEPT
                 ![c].profile = recharge_wallet[userIdOf(cbLocal[c].memoryData).v]]
            /\ cbPc' = [cbPc EXCEPT ![c] = "wallet_update"]
            /\ UNCHANGED <<cbRes, transactionStatuses>>
       ELSE /\ PollFinish(c)
            /\ UNCHANGED cbLocal
  /\ UNCHANGED <<now, pc, body, uniqueRef, attempt, resolved, timer, res,
                 cbBody, payment_callbacks, transactions, recharge_wallet,
                 stPc, stRes, up>>

\* The update of users.recharge_wallet returned: the balance read earlier plus
\* the amount
PollWalletUpdate(c, ok) ==
  /\ up
  /\ cbPc[c] = "wallet_update"
  /\ recharge_wallet' =
       IF ok
         THEN [recharge_wallet EXCEPT ![userIdOf(cbLocal[c].memoryData).v] =
                 cbLocal[c].profile + amountOf(PollData(c))]
         ELSE recharge_wallet
  /\ PollFinish(c)
  /\ UNCHANGED <<now, pc, body, uniqueRef, attempt, resolved, timer, res,
                 cbBody, cbLocal, payment_callbacks, transactions, stPc, stRes, up>>

MaxPollReq == 1
PollReq == 1..MaxPollReq

NextPoll ==
  \/ \E r \in PollReq, b \in PayBodies : PollPay(r, b)
  \/ \E r \in PollReq, echoed \in BOOLEAN : PollProviderOk(r, echoed)
  \/ \E r \in PollReq, fallback \in BOOLEAN : PollProviderErr(r, fallback)
  \/ \E c \in Cb, b \in PollWebhooks : PollCallback(c, b)
  \/ \E c \in Cb, stored \in BOOLEAN : PollInsert(c, stored)
  \/ \E c \in Cb, ok \in BOOLEAN : PollTransaction(c, ok)
  \/ \E c \in Cb, ok \in BOOLEAN : PollWalletRead(c, ok)
  \/ \E c \in Cb, ok \in BOOLEAN : PollWalletUpdate(c, ok)

SpecPoll == Init /\ [][NextPoll]_vars

(***************************************************************************)
(* Properties of the polling server, checked under SpecPoll.               *)
(***************************************************************************)
\* The ledger rows written by the handlers of the deliveries in C
LedgerRowsOf(C) == {i \in DOMAIN transactions : transactions[i].cb \in C}

\* The normalized status of delivery c is Success
IsSuccessDelivery(c) == StatusField(PollData(c)) = Str(S_Success)

\* C4 (as claimed): two deliveries of one successful webhook give at most one
\* ledger row between them, and the wallet is credited with its amount once
C4_DuplicateWebhookOneLedgerRow ==
  \A c1 \in Cb, c2 \in Cb :
    (/\ c1 # c2
     /\ cbPc[c1] # "idle" /\ cbPc[c2] # "idle"
     /\ cbBody[c1] = cbBody[c2]
     /\ IsSuccessDelivery(c1)) =>
      /\ Cardinality(LedgerRowsOf({c1, c2})) <= 1
      /\ \A u \in Users : recharge_wallet[u] <= amountOf(PollData(c1))

\* C5 (as claimed): every ledger row was written for a delivery whose normalized
\* status is Success, and the wallet is credited only after such a delivery
C5_LedgerOnlyOnSuccess ==
  /\ \A i \in DOMAIN transactions : IsSuccessDelivery(transactions[i].cb)
  /\ \A u \in Users :
       recharge_wallet[u] # 0 => \E c \in Cb : cbPc[c] # "idle" /\ IsSuccessDelivery(c)

(***************************************************************************)
(* Further properties of the held-connection server, checked under Spec.   *)
(***************************************************************************)
\* The status GET /api/status reports for a key when its query succeeds, as a
\* function of the rows of payment_callbacks and of the registry
ReportedStatus(rows, registry, key) ==
  LET mine == SelectSeq(rows, LAMBDA row : row.external_reference = Str(key)) IN
  IF mine # <<>>
    THEN toUpperCase(Or(mine[Len(mine)].status, Str(S_PENDING)).v)
    ELSE IF MapHas(registry, key) THEN S_QUEUED ELSE S_PENDING

\* Delivery c starts in this step, with the body an earlier delivery c0 had,
\* whose row was stored, and a request with the key of that body was completed
\* by a callback
IsReplayAfterResolution(c0, c) ==
  /\ c0 # c
  /\ cbPc[c0] = "done"
  /\ cbLocal[c0] = [insertError |-> FALSE]
  /\ cbPc[c] = "idle"
  /\ cbPc'[c] # "idle"
  /\ cbBody'[c] = cbBody[c0]
  /\ \E r \in Req :
       /\ Field(cbBody[c0], "external_reference") = Str(uniqueRef[r])
       /\ resolved[r]
       /\ Len(res[r]) = 1
       /\ res[r][1].by = "callback"

\* C11 (as claimed): the replay of a webhook after the pending request of its key
\* was resolved writes to no held connection, leaves the registry as it is,
\* leaves the status reported for the key as it is, is answered 200 and leaves
\* the process running
C11_ReplayChangesNothing ==
  [][\A c0 \in Cb, c \in Cb :
       IsReplayAfterResolution(c0, c) =>
         LET key == Field(cbBody[c0], "external_reference").v IN
           /\ res' = res
           /\ transactionStatuses' = transactionStatuses
           /\ ReportedStatus(payment_callbacks', transactionStatuses', key)
                = ReportedStatus(payment_callbacks, transactionStatuses, key)
           /\ cbRes'[c] = 200
           /\ up']_vars

\* Delivery c starts in this step with a body that carries the key k
IsDeliveryFor(c, k) ==
  /\ cbPc[c] = "idle"
  /\ cbPc'[c] # "idle"
  /\ Field(cbBody'[c], "external_reference") = Str(k)

\* A request derived the key k and was answered TIMEOUT by the timer
TimedOut(k) ==
  \E r \in Req : /\ uniqueRef[r] = k
                 /\ res[r] # <<>>
                 /\ res[r][1].by = "timer"

\* C12 (as claimed): a delivery for a key whose request timed out, or for a key
\* no request ever derived, finds no registry entry, reaches the insert into
\* payment_callbacks, writes to no held connection and is answered 200
C12_LateOrUnknownWebhookPersisted ==
  [][\A c \in Cb, k \in KnownKeys :
       (IsDeliveryFor(c, k) /\ (TimedOut(k) \/ k \notin ArrivedKeys)) =>
         /\ ~MapHas(transactionStatuses, k)
         /\ cbLocal'[c] # Undef
         /\ res' = res
         /\ cbRes'[c] = 200]_vars

(***************************************************************************)
(* Further properties of the polling server, checked under SpecPoll.       *)
(***************************************************************************)
\* The handler of delivery c has ended
PollEnded(c) == cbPc[c] \in {"done", "returned"}

\* C13 (as claimed): a delivery normalized to Success whose handler has ended
\* and whose key had no entry, or an entry without user_id, was answered 200
C13_NoUserStillAnswered200 ==
  \A c \in Cb :
    (/\ PollEnded(c)
     /\ IsSuccessDelivery(c)
     /\ ~Truthy(userIdOf(cbLocal[c].memoryData))) =>
      cbRes[c] = 200

(***************************************************************************)
(* Further properties of the status endpoint, checked under SpecStatus.    *)
(***************************************************************************)
\* This step sends the query of GET /api/status; this step answers it
IsQueryStep == stPc = Idle /\ stPc' # Idle
IsAnswerStep == stPc # Idle /\ stPc' = Idle

\* C14: a query that succeeds returns the latest row stored for the key, if
\* there is one; the answer reports the status of that row; without a row it
\* reports QUEUED when the registry holds the key and PENDING when it does not
C14_StoreFirstThenRegistry ==
  [][/\ (IsQueryStep /\ stPc'.outcome = "rows") =>
          LET mine == {i \in DOMAIN payment_callbacks :
                         payment_callbacks[i].external_reference = Str(stPc'.key)}
          IN IF mine = {}
               THEN stPc'.callbackRows = <<>>
               ELSE stPc'.callbackRows =
                      <<payment_callbacks[CHOOSE i \in mine : \A j \in mine : j <= i]>>
     /\ (IsAnswerStep /\ stPc.outcome = "rows") =>
          /\ stRes'.code = 200
          /\ stRes'.status =
               ReportedStatus(stPc.callbackRows, transactionStatuses, stPc.key)
          /\ stPc.callbackRows # <<>> =>
               stRes'.status = stPc.callbackRows[1].status.v]_vars

\* C14 witness: a status was answered from the row of its key while the registry
\* holds the key
C14_Witness ==
  /\ stRes # Idle
  /\ stRes.source = "callback"
  /\ stRes.status \in {S_SUCCESS, S_FAILED}
  /\ MapHas(transactionStatuses, stRes.key)

\* C15 (as claimed): a status answer for a key found neither in payment_callbacks
\* nor in the registry has HTTP status 202
C15_UnknownKeyAnswers202 ==
  (stRes # Idle /\ stRes.source = "none") =>
    (stRes.status = S_PENDING /\ stRes.code = 202)

\* C16: no step of GET /api/status, for any key and at any point between the
\* steps of /api/pay, /api/callback and the timers, changes the registry, a
\* request's resolved flag, timer or held response, or the position of a
\* handler of /api/pay
C16_StatusLeavesRegistryAlone ==
  [][(IsQueryStep \/ IsAnswerStep) =>
       UNCHANGED <<transactionStatuses, resolved, timer, res, pc, uniqueRef,
                   body, attempt>>]_vars

\* C16 witness: a poll was answered QUEUED from the registry and the request of
\* its key is still held, unresolved and registered
C16_Witness ==
  /\ stRes # Idle
  /\ stRes.source = "memory"
  /\ \E r \in StatusReq :
       /\ pc[r] = "held"
       /\ ~resolved[r]
       /\ uniqueRef[r] = stRes.key
       /\ MapHas(transactionStatuses, stRes.key)
       /\ transactionStatuses[stRes.key] = r
       /\ res[r] = <<>>

\* The delivery c is handled in this step and its insert reports an error
IsFailedInsertStep(c) ==
  /\ cbPc[c] = "idle"
  /\ cbPc'[c] = "done"
  /\ cbLocal'[c] = [insertError |-> TRUE]

\* C20: when the insert of the callback row fails, the delivery is still answered
\* 200, no row is stored, and a request that was waiting for the key is resolved,
\* answered with the webhook's outcome and removed from the registry
C20_InsertFailureBlocksNothing ==
  [][\A c \in Cb :
       IsFailedInsertStep(c) =>
         LET data == transformSwiftWalletCallbackToPayHero(cbBody'[c])
             key == externalRefOf(data).v
         IN
           /\ cbRes'[c] = 200
           /\ up'
           /\ payment_callbacks' = payment_callbacks
           /\ \A r \in StatusReq :
                (/\ MapHas(transactionStatuses, key)
                 /\ transactionStatuses[key] = r
                 /\ ~resolved[r]
                 /\ res[r] = <<>>)
                  => /\ resolved'[r]
                     /\ res'[r] = <<CallbackAnswer(statusOf(data))>>
                     /\ ~MapHas(transactionStatuses', key)]_vars

\* A delivery whose insert failed was answered 200 and its waiting request was
\* answered by the webhook, with nothing stored
C20_Witness ==
  \E c \in Cb, r \in StatusReq :
    /\ cbPc[c] = "done"
    /\ cbLocal[c] = [insertError |-> TRUE]
    /\ cbRes[c] = 200
    /\ externalRefOf(transformSwiftWalletCallbackToPayHero(cbBody[c])) = Str(uniqueRef[r])
    /\ resolved[r]
    /\ Len(res[r]) = 1
    /\ res[r][1].by = "callback"
    /\ payment_callbacks = <<>>

\* Request r was resolved by a webhook
ResolvedByCallback(r) ==
  resolved[r] /\ res[r] # <<>> /\ res[r][1].by = "callback"

\* C24 (as claimed): once a webhook has resolved a request, the callback of the
\* timer scheduled for that request never runs
C24_TimerCancelledOnResolution ==
  [][\A r \in StatusReq :
       ResolvedByCallback(r) => ~(pc[r] = "held" /\ pc'[r] = "fired")]_vars

\* The deliveries whose row is stored under the key
StoredDeliveries(key) ==
  {payment_callbacks[i].cb : i \in {j \in DOMAIN payment_callbacks :
      payment_callbacks[j].external_reference = Str(key)}}

InitiationFailure == [code |-> 500, status |-> "FAILED", by |-> "catch"]

\* C31 (as claimed): the handling of a delivery for the key of a request whose
\* initiation failed leaves the answered connection alone and attempts the
\* insert of the row
C31_WebhookAfterFailedInitiation ==
  [][\A c \in Cb, r \in StatusReq :
       (/\ cbPc[c] = "idle"
        /\ cbPc'[c] = "done"
        /\ externalRefOf(transformSwiftWalletCallbackToPayHero(cbBody'[c]))
             = Str(uniqueRef[r])
        /\ pc[r] = "failed"
        /\ res[r] = <<InitiationFailure>>)
         => /\ res'[r] = res[r]
            /\ cbLocal'[c] # Undef
            /\ (cbLocal'[c] = [insertError |-> FALSE]
                  => Len(payment_callbacks') = Len(payment_callbacks) + 1)]_vars

\* C37 (as claimed): when the last status answered for a key was SUCCESS, the
\* next answer for that key that a successful query gives is SUCCESS too
C37_SuccessIsFinal ==
  [][(/\ IsAnswerStep
      /\ stPc.outcome = "rows"
      /\ stRes # Idle
      /\ stRes.key = stPc.key
      /\ stRes.status = S_SUCCESS)
       => stRes'.status = S_SUCCESS]_vars

\* C18 (as claimed): when a provider call fails with a business failure (here
\* the provider's HTTP 500 with the body {error: 'Failed to create transaction
\* record'}), it was the first call and the caller is answered in that step
C18_BusinessFailureNotRetried ==
  [][\A r \in PollReq :
       PollProviderErr(r, TRUE) =>
         /\ attempt[r] = 1
         /\ pc'[r] = "failed"
         /\ res'[r] # <<>>]_vars

\* C33 (as claimed): once /api/pay has answered 200, the registry holds an entry
\* under the reference it sent to the provider, and that reference is the
\* external_reference it returned
C33_EntryKeyIsSentReference ==
  \A r \in PollReq :
    (res[r] # <<>> /\ res[r][1].code = 200)
      => /\ res[r][1].external_reference = Str(uniqueRef[r])
         /\ MapHas(transactionStatuses, uniqueRef[r])

\* The amount of the request a ledger row belongs to, by the row's key
RequestedAmounts(row) ==
  {Field(body[r], "amount").v :
     r \in {q \in PollReq : pc[q] # "idle" /\ Str(uniqueRef[q]) = row.external_reference}}

\* C34 (as claimed): a ledger row never holds more than the amount of the request
\* registered under its key, and no row exists for a delivery without an amount
C34_CreditWithinRequestedAmount ==
  \A i \in DOMAIN transactions :
    /\ \A a \in RequestedAmounts(transactions[i]) : transactions[i].amount <= a
    /\ Or(Field(Field(cbBody[transactions[i].cb], "result"), "Amount"),
          Field(cbBody[transactions[i].cb], "amount")) # Undef

\* C35 (as claimed): when every delivery handled so far is a successful one, the
\* update of a handler either fails and leaves the balance, or adds the
\* handler's amount to the balance the wallet has at that moment
C35_NoLostCredit ==
  [][\A c \in Cb :
       (/\ cbPc[c] = "wallet_update"
        /\ cbPc'[c] = "done"
        /\ \A d \in Cb : cbPc[d] # "idle" => IsSuccessDelivery(d))
         => LET u == userIdOf(cbLocal[c].memoryData).v IN
              recharge_wallet'[u] \in
                {recharge_wallet[u], recharge_wallet[u] + amountOf(PollData(c))}]_vars

(***************************************************************************)
(* The initiation side of the held-connection server alone: SpecPay has    *)
(* the requests to /api/pay, their provider calls and their timers, and no *)
(* webhook.                                                                *)
(***************************************************************************)
NextPay ==
  \/ \E r \in Req, b \in PayBodies : Pay(r, b)
  \/ \E r \in Req : ProviderOk(r)
  \/ \E r \in Req : ProviderErr(r)
  \/ \E r \in Req : TimerFire(r)
  \/ \E d \in Delays : Tick(d)

SpecPay == Init /\ [][NextPay]_vars

(***************************************************************************)
(* Properties of the initiation, checked under SpecPay.                    *)
(***************************************************************************)
\* References to probe the gateway selection with, besides the ones requests
\* carry: the prefix alone, in upper case, cut short, and not at the start
GatewayProbes ==
  References \cup { <<"p","a","y","p">>, <<"P","A","Y","P","1">>, <<"p","a","y">>,
                    <<"x","P","a","y","P">>, <<>> }

\* The first four characters are p, a, y, p in either case
HasPaypPrefix(ref) ==
  /\ Len(ref) >= 4
  /\ ref[1] \in {"p", "P"}
  /\ ref[2] \in {"a", "A"}
  /\ ref[3] \in {"y", "Y"}
  /\ ref[4] \in {"p", "P"}

\* C17: in every reachable state (whatever the registry holds, whatever the time
\* is and whichever requests came before) the gateway selected for a reference
\* is PayHero when the reference begins with 'payp' in any letter case and
\* SwiftWallet otherwise; so two requests with one reference select one gateway,
\* and only a SwiftWallet request ever gets a second attempt
C17_GatewayByReferenceOnly ==
  /\ \A ref \in GatewayProbes :
       gateway(Str(ref)) = IF HasPaypPrefix(ref) THEN "payhero" ELSE "swiftwallet"
  /\ \A r \in Arrived, q \in Arrived :
       Field(body[r], "reference") = Field(body[q], "reference") =>
         gateway(Field(body[r], "reference")) = gateway(Field(body[q], "reference"))
  /\ \A r \in Arrived :
       attempt[r] > 1 => ~HasPaypPrefix(Field(body[r], "reference").v)

\* C17 witness: two requests with the PayHero reference are held, registered
\* one after the other, their provider calls having returned at different times
C17_Witness ==
  \E r \in Req, q \in Req :
    /\ r # q
    /\ pc[r] = "held" /\ pc[q] = "held"
    /\ Field(body[r], "reference") = Field(body[q], "reference")
    /\ HasPaypPrefix(Field(body[r], "reference").v)
    /\ timer[r] # timer[q]
    /\ attempt[r] = 1 /\ attempt[q] = 1

\* C19 (as claimed): a request is answered with an initiation failure only after
\* its provider call failed three times, whichever gateway was selected
C19_FailureAfterThreeAttempts ==
  \A r \in Req : pc[r] = "failed" => attempt[r] = MAX_ATTEMPTS

\* Request r is the one its key is registered for
IsRegistered(r) ==
  /\ pc[r] # "idle"
  /\ MapHas(transactionStatuses, uniqueRef[r])
  /\ transactionStatuses[uniqueRef[r]] = r

\* C25 (as claimed): a registered request either still waits for its provider
\* call, which schedules the timer, or has a timer scheduled
C25_RegisteredHasTimer ==
  \A r \in Req : IsRegistered(r) => (pc[r] = "await" \/ timer[r] # -1)

\* C29 (as claimed): a SwiftWallet request makes its attempts one at a time and
\* never more than three; once the provider call has succeeded or the request
\* has failed no further attempt is made; the step in which the third attempt
\* fails leaves the request answered exactly once, with 500, and without a timer
C29_SwiftWalletBoundedRetry ==
  [][\A r \in Req :
       (pc'[r] # "idle" /\ gateway(Field(body'[r], "reference")) = "swiftwallet")
         => /\ attempt'[r] \in 1..MAX_ATTEMPTS
            /\ attempt'[r] \in {attempt[r], attempt[r] + 1}
            /\ pc[r] \notin {"idle", "await"} => attempt'[r] = attempt[r]
            /\ (pc[r] = "await" /\ pc'[r] = "held") => attempt'[r] = attempt[r]
            /\ (pc[r] = "await" /\ pc'[r] = "failed")
                 => /\ attempt'[r] = MAX_ATTEMPTS
                    /\ res'[r] = <<InitiationFailure>>
                    /\ timer'[r] = -1
                    /\ up']_vars

\* C30 (as claimed): a request answered with the 500 of a failed initiation is
\* not in the registry any more
C30_FailedInitiationLeavesNoEntry ==
  \A r \in Req :
    (pc[r] = "failed" /\ res[r] = <<InitiationFailure>>)
      => ~MapHas(transactionStatuses, uniqueRef[r])

\* C32 (as claimed): a connection is answered with TIMEOUT only in the step of
\* the timer its own request scheduled, when its own 120 s have elapsed
C32_TimerAnswersOwnRequestOnly ==
  [][\A q \in Req :
       (/\ res'[q] # res[q]
        /\ res'[q][Len(res'[q])].by = "timer")
         => /\ pc[q] = "held"
            /\ pc'[q] = "fired"
            /\ timer[q] # -1
            /\ now >= timer[q]]_vars

(***************************************************************************)
(* The held-connection server receiving webhooks in PayHero's format:      *)
(* SpecPayHero has the initiation, the timers and POST /api/callback, and   *)
(* every delivery has the key at response.ExternalReference.                *)
(***************************************************************************)
\* The body PayHero posts to callback_url: the key and the outcome are inside
\* response, and the top-level status is a boolean
PayHeroWebhook(k) ==
  Obj([response |-> Obj([ExternalReference |-> Str(k), Status |-> Str(S_Success),
                         ResultCode |-> Num(0), Amount |-> Num(500)]),
       status |-> Bool(TRUE)])

PayHeroWebhooks == { PayHeroWebhook(k) : k \in ArrivedKeys }

NextPayHero ==
  \/ \E r \in Req, b \in PayBodies : Pay(r, b)
  \/ \E r \in Req : ProviderOk(r)
  \/ \E r \in Req : ProviderErr(r)
  \/ \E r \in Req : TimerFire(r)
  \/ \E d \in Delays : Tick(d)
  \/ \E c \in Cb, b \in PayHeroWebhooks, stored \in BOOLEAN : Callback(c, b, stored)

SpecPayHero == Init /\ [][NextPayHero]_vars

\* Request r is registered under its key, not resolved and not answered
IsPendingUnder(r, k) ==
  /\ MapHas(transactionStatuses, k)
  /\ transactionStatuses[k] = r
  /\ ~resolved[r]
  /\ res[r] = <<>>

\* C23 (as claimed): a delivery in PayHero's format whose
\* response.ExternalReference is the key of a pending request resolves that
\* request with the outcome at response.Status
C23_PayHeroPathMatched ==
  [][\A c \in Cb, r \in Req :
       (/\ cbPc[c] = "idle"
        /\ cbPc'[c] # "idle"
        /\ cbBody'[c] = PayHeroWebhook(uniqueRef[r])
        /\ IsPendingUnder(r, uniqueRef[r]))
         => /\ resolved'[r]
            /\ res'[r] = <<CallbackAnswer(Str(S_SUCCESS))>>]_vars

(***************************************************************************)
(* The reference generator over references of every shape and times with    *)
(* every kind of suffix: SpecKey starts at one of KeyTimes and has only the *)
(* start of /api/pay.                                                       *)
(***************************************************************************)
\* Times whose last four digits are zeros, have leading zeros, or are full
KeyTimes == {0, 7, 42, 999, 1234, 9999, 10000, 120007, 139999}

\* References: with a stripped character among the first four, shorter than four
\* characters after stripping, nothing left after stripping, no stripped
\* character, and stripped characters only at the front
KeyReferences ==
  References \cup
  { <<"A","-","1">>, <<"#","!","$">>, <<"a","b","c","d","e","f">>,
    <<"_","_","x","9","Z","q","w">>, <<>> }

KeyBodies == { PayBody(ref) : ref \in KeyReferences }

InitKey ==
  /\ now \in KeyTimes
  /\ pc = [r \in Req |-> "idle"]
  /\ body = [r \in Req |-> Undef]
  /\ uniqueRef = [r \in Req |-> <<>>]
  /\ attempt = [r \in Req |-> 0]
  /\ resolved = [r \in Req |-> FALSE]
  /\ timer = [r \in Req |-> -1]
  /\ res = [r \in Req |-> <<>>]
  /\ transactionStatuses = EmptyMap
  /\ cbPc = [c \in Cb |-> "idle"]
  /\ cbBody = [c \in Cb |-> Undef]
  /\ cbRes = [c \in Cb |-> 0]
  /\ cbLocal = [c \in Cb |-> Undef]
  /\ payment_callbacks = <<>>
  /\ transactions = <<>>
  /\ recharge_wallet = [u \in Users |-> 0]
  /\ stPc = Idle
  /\ stRes = Idle
  /\ up = TRUE

NextKey == \E r \in Req, b \in KeyBodies : Pay(r, b)

SpecKey == InitKey /\ [][NextKey]_vars

\* The positions of the alphanumeric characters of a reference, and the n-th of
\* them in order
AlnumPositions(ref) == {i \in DOMAIN ref : IsAlnum(ref[i])}
NthAlnum(ref, n) ==
  ref[CHOOSE i \in AlnumPositions(ref) :
        Cardinality({k \in AlnumPositions(ref) : k < i}) = n - 1]

\* The number a decimal digit stands for
DigitValue(ch) == CHOOSE d \in 0..9 : DigitChars[d + 1] = ch

\* C26: the key of a request is the first alphanumeric characters of its
\* reference, four of them or all when there are fewer, followed by exactly four
\* decimal digits that spell the time in milliseconds mod 10000; it has at most
\* 8 characters and all are alphanumeric
C26_KeyIsPrefixAndTimeSuffix ==
  \A r \in Arrived :
    LET ref == Field(body[r], "reference").v
        key == uniqueRef[r]
        count == Cardinality(AlnumPositions(ref))
        n == IF count < 4 THEN count ELSE 4
    IN
      /\ Len(key) = n + 4
      /\ Len(key) <= 8
      /\ \A i \in 1..Len(key) : IsAlnum(key[i])
      /\ \A i \in 1..n : key[i] = NthAlnum(ref, i)
      /\ \A i \in (n + 1)..(n + 4) : key[i] \in Range(DigitChars)
      /\ DigitValue(key[n + 1]) * 1000 + DigitValue(key[n + 2]) * 100
           + DigitValue(key[n + 3]) * 10 + DigitValue(key[n + 4]) = now % 10000

\* A key with a stripped character skipped and a suffix with leading zeros, next
\* to a key shorter than 8 characters
C26_Witness ==
  \E r, q \in Arrived :
    /\ Field(body[r], "reference").v = <<"A","C","-","T","1","2","3">>
    /\ uniqueRef[r] = <<"A","C","T","1","0","0","4","2">>
    /\ Field(body[q], "reference").v = <<"A","-","1">>
    /\ uniqueRef[q] = <<"A","1","0","0","4","2">>

(***************************************************************************)
(* The PayHero polling server, which keeps user_id in memory: /api/pay,     *)
(* /api/callback and /api/status of one process.  The key is the caller's   *)
(* reference; webhooks come in PayHero's format and are not normalized.     *)
(***************************************************************************)
\* payload.external_reference = reference: the request's key is its reference
HeroPay(r, b) ==
  /\ up
  /\ pc[r] = "idle"
  /\ uniqueRef' = [uniqueRef EXCEPT ![r] = Field(b, "reference").v]
  /\ body' = [body EXCEPT ![r] = b]
  /\ pc' = [pc EXCEPT ![r] = "await"]
  /\ attempt' = [attempt EXCEPT ![r] = 1]
  /\ UNCHANGED <<now, resolved, timer, res, transactionStatuses, cbPc, cbBody, cbRes,
                 cbLocal, payment_callbacks, transactions, recharge_wallet,
                 stPc, stRes, up>>

\* The provider call returned: statusKey = data?.external_reference || reference,
\* which is the reference either way; the entry with user_id is stored and the
\* caller is answered
HeroProviderOk(r) ==
  /\ up
  /\ pc[r] = "await"
  /\ transactionStatuses' =
       MapSet(transactionStatuses, uniqueRef[r],
              [status |-> S_QUEUED, user_id |-> Field(body[r], "user_id"),
               verified |-> FALSE])
  /\ res' = Write(r, [code |-> 200, status |-> "QUEUED", by |-> "pay",
                      external_reference |-> Str(uniqueRef[r])])
  /\ pc' = [pc EXCEPT ![r] = "done"]
  /\ UNCHANGED <<now, body, uniqueRef, attempt, resolved, timer, cbPc, cbBody, cbRes,
                 cbLocal, payment_callbacks, transactions, recharge_wallet,
                 stPc, stRes, up>>

\* The provider call failed: 500, nothing stored
HeroProviderErr(r) ==
  /\ up
  /\ pc[r] = "await"
  /\ res' = Write(r, [code |-> 500, status |-> "Failure", by |-> "catch",
                      external_reference |-> Undef])
  /\ pc' = [pc EXCEPT ![r] = "failed"]
  /\ UNCHANGED <<now, body, uniqueRef, attempt, resolved, timer, transactionStatuses,
                 cbPc, cbBody, cbRes, cbLocal, payment_callbacks, transactions,
                 recharge_wallet, stPc, stRes, up>>

\* PayHero's webhook for key k with the given response.Status
HeroWebhook(k, Status) ==
  Obj([response |-> Obj([ExternalReference |-> Str(k), Status |-> Str(Status),
                         Amount |-> Num(500)])])

\* A failed attempt and a successful payment for a key some request has
HeroWebhooks ==
  { HeroWebhook(k, Status) : k \in ArrivedKeys, Status \in {S_Failed, S_Success} }

\* From the start of the handler to the await of the insert
HeroCallback(c, b) ==
  /\ up
  /\ cbPc[c] = "idle"
  /\ IF c = 1 THEN TRUE ELSE cbPc[c - 1] # "idle"
  /\ cbBody' = [cbBody EXCEPT ![c] = b]
  /\ IF Truthy(externalRefOfPolling(b))
       THEN /\ cbPc' = [cbPc EXCEPT ![c] = "insert"]
            /\ UNCHANGED cbRes
       ELSE /\ cbPc' = [cbPc EXCEPT ![c] = "done"]
            /\ cbRes' = [cbRes EXCEPT ![c] = 200]
  /\ UNCHANGED <<now, pc, body, uniqueRef, attempt, resolved, timer, res,
                 transactionStatuses, cbLocal, payment_callbacks, transactions,
                 recharge_wallet, stPc, stRes, up>>

\* The insert into payment_callbacks returned.  Only for the status 'success'
\* the handler goes on: it reads the entry now, and without a user_id in it it
\* returns without answering.
HeroInsert(c, stored) ==
  /\ up
  /\ cbPc[c] = "insert"
  /\ LET data == cbBody[c]
         externalRef == externalRefOfPolling(data)
         status == statusOf(data)
         memoryData == IF HasEntry(externalRef)
                         THEN transactionStatuses[externalRef.v] ELSE Undef
     IN
       /\ payment_callbacks' =
            IF stored
              THEN Append(payment_callbacks,
                     [external_reference |-> externalRef, callback_data |-> data,
                      status |-> status, cb |-> c])
              ELSE payment_callbacks
       /\ IF Truthy(status) /\ toLowerCase(status.v) = S_success
            THEN IF Truthy(userIdOf(memoryData))
                   THEN /\ cbPc' = [cbPc EXCEPT ![c] = "transaction"]
                        /\ cbLocal' = [cbLocal EXCEPT ![c] =
                             [memoryData |-> memoryData, profile |-> 0]]
                        /\ UNCHANGED cbRes
                   ELSE /\ cbPc' = [cbPc EXCEPT ![c] = "returned"]
                        /\ UNCHANGED <<cbRes, cbLocal>>
            ELSE /\ cbPc' = [cbPc EXCEPT ![c] = "done"]
                 /\ cbRes' = [cbRes EXCEPT ![c] = 200]
                 /\ UNCHANGED cbLocal
  /\ UNCHANGED <<now, pc, body, uniqueRef, attempt, resolved, timer, res,
                 transactionStatuses, cbBody, transactions, recharge_wallet,
                 stPc, stRes, up>>

\* The insert into transactions returned; 200 is answered either way
HeroTransaction(c, ok) ==
  /\ up
  /\ cbPc[c] = "transaction"
  /\ transactions' =
       IF ok
         THEN Append(transactions,
                [user_id |-> userIdOf(cbLocal[c].memoryData).v,
                 amount |-> Or(Field(Field(cbBody[c], "response"), "Amount"),
                               Num(DEFAULT_AMOUNT)).v,
                 external_reference |-> externalRefOfPolling(cbBody[c]), cb |-> c])
         ELSE transactions
  /\ cbPc' = [cbPc EXCEPT ![c] = "done"]
  /\ cbRes' = [cbRes EXCEPT ![c] = 200]
  /\ UNCHANGED <<now, pc, body, uniqueRef, attempt, resolved, timer, res,
                 transactionStatuses, cbBody, cbLocal, payment_callbacks,
                 recharge_wallet, stPc, stRes, up>>

\* GET /api/status sends its query; an error result is logged and gives no rows
HeroStatusQuery(key, ok) ==
  /\ up
  /\ stPc = Idle
  /\ stPc' = [t |-> "query", key |-> key,
              callbackRows |-> IF ok THEN LatestRows(key) ELSE <<>>]
  /\ UNCHANGED <<now, pc, body, uniqueRef, attempt, resolved, timer, res,
                 transactionStatuses, cbPc, cbBody, cbRes, cbLocal,
                 payment_callbacks, transactions, recharge_wallet, stRes, up>>

\* The payload built from the latest row; it has no user_id
HeroPayload(latest) ==
  [status |-> toUpperCase(Or(latest.status, Str(S_PENDING)).v), user_id |-> Undef,
   verified |-> TRUE]

\* The query returned.  With a row the handler replaces the entry of the key in
\* memory by the payload; without one it answers from memory, or 202.
HeroStatusAnswer ==
  /\ up
  /\ stPc # Idle
  /\ IF stPc.callbackRows # <<>>
       THEN /\ transactionStatuses' =
                 MapSet(transactionStatuses, stPc.key,
                        HeroPayload(stPc.callbackRows[1]))
            /\ stRes' = [key |-> stPc.key, code |-> 200,
                         status |-> HeroPayload(stPc.callbackRows[1]).status,
                         verified |-> TRUE, source |-> "callback"]
       ELSE /\ UNCHANGED transactionStatuses
            /\ stRes' =
                 IF MapHas(transactionStatuses, stPc.key)
                   THEN [key |-> stPc.key, code |-> 200,
                         status |-> transactionStatuses[stPc.key].status,
                         verified |-> FALSE, source |-> "memory"]
                   ELSE [key |-> stPc.key, code |-> 202, status |-> S_PENDING,
                         verified |-> FALSE, source |-> "none"]
  /\ stPc' = Idle
  /\ UNCHANGED <<now, pc, body, uniqueRef, attempt, resolved, timer, res,
                 cbPc, cbBody, cbRes, cbLocal,
                 payment_callbacks, transactions, recharge_wallet, up>>

NextHero ==
  \/ \E r \in PollReq, b \in PayBodies : HeroPay(r, b)
  \/ \E r \in PollReq : HeroProviderOk(r)
  \/ \E r \in PollReq : HeroProviderErr(r)
  \/ \E c \in Cb, b \in HeroWebhooks : HeroCallback(c, b)
  \/ \E c \in Cb, stored \in BOOLEAN : HeroInsert(c, stored)
  \/ \E c \in Cb, ok \in BOOLEAN : HeroTransaction(c, ok)
  \/ \E key \in ArrivedKeys, ok \in BOOLEAN : HeroStatusQuery(key, ok)
  \/ HeroStatusAnswer

SpecHero == Init /\ [][NextHero]_vars

\* C36 (as claimed): a successful webhook that is handled after /api/pay stored
\* the entry of its key with a user_id goes on to the ledger insert, whatever
\* status queries were answered in between
C36_PollingLeavesWebhookAlone ==
  [][\A c \in Cb, r \in PollReq :
       (/\ cbPc[c] = "insert"
        /\ cbPc'[c] # "insert"
        /\ cbBody[c] = HeroWebhook(uniqueRef[r], S_Success)
        /\ pc[r] = "done"
        /\ Truthy(Field(body[r], "user_id")))
         => cbPc'[c] = "transaction"]_vars

\* C38 (as claimed): a status answer has verified=true only with the status
\* SUCCESS or COMPLETED
C38_VerifiedOnlyOnSuccess ==
  (stRes # Idle /\ stRes.verified) => stRes.status \in {S_SUCCESS, S_COMPLETED}

(***************************************************************************)
(* /api/pay of the held-connection server with incomplete bodies: SpecInput *)
(* has the initiation, the timers, and requests whose phone or reference is *)
(* missing or not a string.                                                 *)
(***************************************************************************)
\* Bodies without phone, with a numeric phone, without reference, with a numeric
\* reference, and without any field
IncompleteBodies ==
  { Obj([amount |-> Num(500), reference |-> Str(<<"P","a","y","P","-","7">>)]),
    Obj([phone |-> Num(71), amount |-> Num(500),
         reference |-> Str(<<"P","a","y","P","-","7">>)]),
    Obj([phone |-> Str(<<"0","7","1">>), amount |-> Num(500)]),
    Obj([phone |-> Str(<<"0","7","1">>), amount |-> Num(500), reference |-> Num(7)]),
    Obj(EmptyBody) }

\* phone.startsWith, reference.toLowerCase or reference.replace is called on a
\* value that is not a string
IsIncomplete(b) == ~IsStr(Field(b, "phone")) \/ ~IsStr(Field(b, "reference"))

\* The handler throws a TypeError before its first try block and before the
\* registry is written: the async handler rejects, and the build decides whether
\* the request hangs, is answered 500 by the framework, or the process ends.
PayThrows(r, b) ==
  /\ up
  /\ pc[r] = "idle"
  /\ IF r = 1 THEN TRUE ELSE pc[r - 1] # "idle"
  /\ IsIncomplete(b)
  /\ body' = [body EXCEPT ![r] = b]
  /\ pc' = [pc EXCEPT ![r] = "crashed"]
  /\ \E outcome \in {<<0, TRUE>>, <<500, TRUE>>, <<0, FALSE>>} :
       /\ res' = IF outcome[1] = 500
                   THEN Write(r, [code |-> 500, status |-> "FAILED", by |-> "framework"])
                   ELSE res
       /\ up' = outcome[2]
  /\ UNCHANGED <<now, uniqueRef, attempt, resolved, timer, transactionStatuses,
                 cbPc, cbBody, cbRes, cbLocal, payment_callbacks, transactions,
                 recharge_wallet, stPc, stRes>>

NextInput ==
  \/ \E r \in Req, b \in PayBodies : Pay(r, b)
  \/ \E r \in Req, b \in IncompleteBodies : PayThrows(r, b)
  \/ \E r \in Req : ProviderOk(r)
  \/ \E r \in Req : ProviderErr(r)
  \/ \E r \in Req : TimerFire(r)
  \/ \E d \in Delays : Tick(d)

SpecInput == Init /\ [][NextInput]_vars

\* C39 (as claimed): a request whose phone or reference is missing or not a
\* string has been answered with an error status once its handler has run, and
\* the registry holds no entry for it
C39_IncompleteBodyAnswered ==
  \A r \in Req :
    (pc[r] # "idle" /\ IsIncomplete(body[r]))
      => /\ res[r] # <<>>
         /\ res[r][1].code >= 400
         /\ \A k \in DOMAIN transactionStatuses : transactionStatuses[k] # r

====
